---- MODULE Spec2Model ----
(***************************************************************************)
(* Streaming sign-language recognition service (ml-service).               *)
(*                                                                         *)
(* The module models                                                       *)
(*   - SlidingWindowBuffer (app/services/streaming_recognition.py),        *)
(*   - StreamingRecognitionService and its process-wide singleton,         *)
(*   - the websocket handler that drives the service (app/api/streaming.py)*)
(*                                                                         *)
(* The specifications share the variables:                                 *)
(*   SpecBuffer  one SlidingWindowBuffer driven by add_frame, get_sequence *)
(*               and reset, for every configuration (window_size, stride)  *)
(*               within the bounds;                                        *)
(*   Spec        the singleton service driven by the websocket handlers of *)
(*               the connections in Conns;                                 *)
(*   SpecPredict the predict methods of the two inference engines          *)
(*               (app/services/onnx_inference.py);                         *)
(*   SpecEngine  the engine singletons of onnx_inference.py, driven by     *)
(*               get_inference_engine, startup_event (app/main.py) and     *)
(*               inferences;                                               *)
(*   SpecInfer   the service's _run_inference on a ready window, for every *)
(*               threshold and number of classes within the bounds;        *)
(*   SpecLoop    the websocket handlers on the event loop, with the events *)
(*               they send and the classify call as a step of its own;     *)
(*   SpecHeartbeat  the same handlers around a connection's 100th frame;   *)
(*   SpecExtract the extractor's extract_landmarks_sequence.               *)
(***************************************************************************)
EXTENDS Integers, Sequences, FiniteSets, TLC

(***************************************************************************)
(* Bounds of the model.                                                    *)
(***************************************************************************)
MaxWindow == 4
MaxStride == 4
MaxFrames == 8
MaxCalls == 6
MaxSamples == 2
MaxClasses == 3
MaxTopK == 3
MaxLoopFrames == 3
MaxLoopEvents == 4
MaxInputFrames == 4
MaxSequenceLength == 3

(***************************************************************************)
(* Values.                                                                 *)
(***************************************************************************)
\* landmarks is None: the extractor found no hand
NoLandmarks == "None"
\* np.zeros((21, 3)): the padding frame
ZeroFrame == "zeros"
\* the (21, 3) arrays the extractor can return
Landmarks == {"hand"}
\* connections (websocket handler invocations)
Conns == {"a", "b"}
\* inference times in ms that predict can report
Latencies == {1, 2}

VARIABLES
    window_size,      \* SlidingWindowBuffer.window_size
    stride,           \* SlidingWindowBuffer.stride
    buffer,           \* SlidingWindowBuffer.buffer (deque, oldest first)
    frame_count,      \* SlidingWindowBuffer.frame_count
    windows,          \* the array get_sequence handed out that the caller holds (none or
                      \* one), with the history of what it held when it was returned
    service_created,  \* _streaming_service is not None
    session_id,       \* StreamingRecognitionService.session_id
    is_active,        \* StreamingRecognitionService.is_active
    inference_times,  \* StreamingRecognitionService.inference_times
    pc,               \* per connection: position of its websocket handler
    added,            \* history: arguments of the add_frame calls since construction/reset
    calls,            \* history: process_frame calls since the last start_session
    clean,            \* history: no frame of this session failed to decode, extract or infer
    last,             \* history: the operation that produced this state
    inference_engine, \* onnx_inference._inference_engine: "None" or "real"
    mock_engine,      \* onnx_inference._mock_engine: "None" or "mock"
    use_mock,         \* onnx_inference._use_mock
    onnx_available,   \* onnx_inference.ONNX_AVAILABLE
    np_rng,           \* numpy's global generator: the seed it was given and the draws since
    min_confidence,   \* StreamingRecognitionService.min_confidence
    num_classes,      \* the engines' number of classes
    call,             \* history: the last engine call, what it was given and what it returned
    remembered,       \* history: one earlier MockInferenceEngine.predict call
    ws_frame_count,   \* per connection: the local frame_count of websocket_recognize
    outbox,           \* per connection: the events sent with send_json, in order
    ended_by,         \* per connection: what ended its receive loop
    active_connections \* streaming.active_connections: the session ids registered

vars == <<window_size, stride, buffer, frame_count, windows, service_created,
          session_id, is_active, inference_times, pc, added, calls, clean, last,
          inference_engine, mock_engine, use_mock, onnx_available, np_rng,
          min_confidence, num_classes, call, remembered,
          ws_frame_count, outbox, ended_by, active_connections>>

bufferVars == <<window_size, stride, buffer, frame_count>>
serviceVars == <<service_created, session_id, is_active, inference_times>>
engineVars == <<inference_engine, mock_engine, use_mock, onnx_available>>
predictVars == <<np_rng, min_confidence, num_classes, call, remembered>>
loopVars == <<ws_frame_count, outbox, ended_by, active_connections>>

NoOp == [op |-> "init", conn |-> "-", arg |-> "-", ready |-> FALSE, ret |-> "-"]
NoCall == [op |-> "none"]

(***************************************************************************)
(* SlidingWindowBuffer                                                     *)
(***************************************************************************)

\* mutant: a plain list, nothing is ever evicted
deque_append_unbounded(buf, x) == Append(buf, x)

\* mutant: appendleft, the newest frame goes first and the newest-but-last is lost
deque_appendleft(buf, x) ==
    IF Len(buf) = window_size THEN <<x>> \o SubSeq(buf, 1, Len(buf) - 1)
    ELSE <<x>> \o buf

\* mutant: a full deque drops its two oldest elements
deque_append_evict_two(buf, x) ==
    IF window_size = 0 THEN <<>>
    ELSE IF Len(buf) = window_size THEN Append(SubSeq(buf, 3, Len(buf)), x)
    ELSE Append(buf, x)

\* deque(maxlen=window_size).append(x): a full deque drops its oldest element
deque_append(buf, x) ==
    IF window_size = 0 THEN <<>>
    ELSE IF Len(buf) = window_size THEN Append(Tail(buf), x)
    ELSE Append(buf, x)

\* mutant: readiness computed from the count before its increment
add_frame_stale_count(landmarks) ==
    LET lm == IF landmarks = NoLandmarks THEN ZeroFrame ELSE landmarks
        nbuf == deque_append(buffer, lm)
        is_ready == /\ Len(nbuf) = window_size
                    /\ (frame_count - window_size) % stride = 0
    IN [buffer |-> nbuf, frame_count |-> frame_count + 1, is_ready |-> is_ready]

\* mutant: a frame without landmarks is dropped instead of padded
add_frame_skip_none(landmarks) ==
    IF landmarks = NoLandmarks
    THEN [buffer |-> buffer, frame_count |-> frame_count, is_ready |-> FALSE]
    ELSE LET nbuf == deque_append(buffer, landmarks)
             ncount == frame_count + 1
         IN [buffer |-> nbuf, frame_count |-> ncount,
             is_ready |-> /\ Len(nbuf) = window_size
                          /\ (ncount - window_size) % stride = 0]

\* add_frame(landmarks): the buffer after the call and the value returned
add_frame(landmarks) ==
    LET lm == IF landmarks = NoLandmarks THEN ZeroFrame ELSE landmarks
        nbuf == deque_append(buffer, lm)
        ncount == frame_count + 1
        is_ready == /\ Len(nbuf) = window_size
                    /\ (ncount - window_size) % stride = 0
    IN [buffer |-> nbuf, frame_count |-> ncount, is_ready |-> is_ready]

\* mutant: the array is a view of the live deque
get_sequence_view == [kind |-> "view", data |-> <<>>]

\* get_sequence(): np.array(list(self.buffer)) builds a new array from the
\* deque's elements; "copy" arrays own their data, a "view" would read the
\* live deque
get_sequence == [kind |-> "copy", data |-> buffer]

\* what reading an array handed out by get_sequence yields now
Contents(w) == IF w.kind = "view" THEN buffer ELSE w.data

\* mutant: the newest frame survives the reset
reset_keep_newest ==
    [buffer |-> IF buffer = <<>> THEN <<>> ELSE <<buffer[Len(buffer)]>>,
     frame_count |-> 0]

\* mutant: the counter survives the reset
reset_keep_count == [buffer |-> <<>>, frame_count |-> frame_count]

\* reset(): buffer.clear(); frame_count = 0
reset == [buffer |-> <<>>, frame_count |-> 0]

(***************************************************************************)
(* SpecBuffer: one SlidingWindowBuffer, any caller.  The caller holds at   *)
(* most one array returned by get_sequence: a new call's result replaces   *)
(* the held array or is dropped, so every returned array is followed in    *)
(* some behaviour.                                                         *)
(***************************************************************************)

InitBuffer ==
    /\ window_size \in 1..MaxWindow
    /\ stride \in 1..MaxStride
    /\ buffer = <<>>
    /\ frame_count = 0
    /\ windows = <<>>
    /\ service_created = FALSE
    /\ session_id = "None"
    /\ is_active = FALSE
    /\ inference_times = <<>>
    /\ pc = [c \in Conns |-> "none"]
    /\ added = <<>>
    /\ calls = 0
    /\ clean = TRUE
    /\ last = NoOp
    /\ inference_engine = "None"
    /\ mock_engine = "None"
    /\ use_mock = FALSE
    /\ onnx_available = TRUE
    /\ np_rng = [seed |-> 0, pos |-> 0]
    /\ min_confidence = 0
    /\ num_classes = 1
    /\ call = NoCall
    /\ remembered = NoCall
    /\ ws_frame_count = [c \in Conns |-> 0]
    /\ outbox = [c \in Conns |-> <<>>]
    /\ ended_by = [c \in Conns |-> "-"]
    /\ active_connections = {}

BufAddFrame ==
    \E lm \in Landmarks \cup {NoLandmarks} :
        /\ Len(added) < MaxFrames
        /\ LET r == add_frame(lm) IN
            /\ buffer' = r.buffer
            /\ frame_count' = r.frame_count
            /\ last' = [op |-> "add_frame", conn |-> "-", arg |-> lm,
                        ready |-> r.is_ready, ret |-> "-"]
        /\ added' = Append(added, lm)
        /\ UNCHANGED <<window_size, stride, windows, serviceVars, pc, calls, clean>>
        /\ UNCHANGED <<engineVars, predictVars>>
        /\ UNCHANGED loopVars

BufGetSequence ==
    /\ \/ windows' = <<[array |-> get_sequence, returned |-> buffer]>>
       \/ windows # <<>> /\ UNCHANGED windows
    /\ last' = [op |-> "get_sequence", conn |-> "-", arg |-> "-",
                ready |-> FALSE, ret |-> "-"]
    /\ UNCHANGED <<bufferVars, serviceVars, pc, added, calls, clean>>
    /\ UNCHANGED <<engineVars, predictVars>>
    /\ UNCHANGED loopVars

BufReset ==
    /\ buffer' = reset.buffer
    /\ frame_count' = reset.frame_count
    /\ added' = <<>>
    /\ last' = [op |-> "reset", conn |-> "-", arg |-> "-",
                ready |-> FALSE, ret |-> "-"]
    /\ UNCHANGED <<window_size, stride, windows, serviceVars, pc, calls, clean>>
    /\ UNCHANGED <<engineVars, predictVars>>
    /\ UNCHANGED loopVars

NextBuffer == BufAddFrame \/ BufGetSequence \/ BufReset

SpecBuffer == InitBuffer /\ [][NextBuffer]_vars

(***************************************************************************)
(* Properties of SlidingWindowBuffer (checked under SpecBuffer).           *)
(***************************************************************************)

\* the frame an add_frame argument puts into the buffer
Padded(arg) == IF arg = NoLandmarks THEN ZeroFrame ELSE arg

\* the last n arguments of the history, as frames (all of them when fewer)
LatestFrames(n) ==
    LET k == IF Len(added) < n THEN Len(added) ELSE n
    IN [i \in 1..k |-> Padded(added[Len(added) - k + i])]

\* C1: with 1 <= stride <= window_size, the n-th add_frame call since
\* construction or the last reset returns true exactly when n >= window_size and
\* (n - window_size) is a multiple of stride, and false on every other call.
C1_ReadyCadence ==
    (last.op = "add_frame" /\ 1 <= stride /\ stride <= window_size) =>
        (last.ready <=> (/\ Len(added) >= window_size
                         /\ (Len(added) - window_size) % stride = 0))

\* the second firing of a buffer with stride >= 2
C1_Witness ==
    /\ last.op = "add_frame" /\ last.ready
    /\ 2 <= stride /\ stride <= window_size
    /\ Len(added) = window_size + stride

\* C2: the buffer never holds more than window_size frames, and an add_frame
\* on a full buffer drops exactly the oldest frame and appends the new one.
C2_RingInvariant ==
    /\ [](Len(buffer) <= window_size)
    /\ [][(last'.op = "add_frame" /\ Len(buffer) = window_size) =>
            buffer' = Append(Tail(buffer), Padded(last'.arg))]_vars

\* an add_frame that had to evict, after a reset
C2_Witness ==
    /\ last.op = "add_frame"
    /\ Len(added) > window_size
    /\ Len(buffer) = window_size
    /\ window_size >= 2

\* C4: when add_frame returned true, get_sequence yields exactly window_size
\* frames, the window_size most recent ones, oldest first and newest last.
C4_WindowIsLatest ==
    (last.op = "add_frame" /\ last.ready) =>
        /\ Len(Contents(get_sequence)) = window_size
        /\ Contents(get_sequence) = LatestFrames(window_size)

\* a ready window that has slid and whose ends differ
C4_Witness ==
    /\ last.op = "add_frame" /\ last.ready
    /\ Len(added) > window_size
    /\ Contents(get_sequence)[1] # Contents(get_sequence)[window_size]

\* C5: an array handed out by get_sequence keeps the length and the contents
\* it had when it was returned, whatever add_frame and reset calls follow.
C5_SnapshotFrozen ==
    \A i \in DOMAIN windows : Contents(windows[i].array) = windows[i].returned

\* a full window was handed out and the buffer has moved on since
C5_Witness ==
    \E i \in DOMAIN windows :
        /\ Len(windows[i].returned) = window_size
        /\ windows[i].returned # buffer
        /\ last.op \in {"add_frame", "reset"}

\* C6: every add_frame call increments frame_count by one; a call without
\* landmarks appends one zero frame and returns what a call with landmarks would
\* have returned in the same position.
C6_AbsentFrame ==
    [][last'.op = "add_frame" =>
        /\ frame_count' = frame_count + 1
        /\ (last'.arg = NoLandmarks =>
              /\ buffer' = Append(IF Len(buffer) = window_size THEN Tail(buffer)
                                  ELSE buffer, ZeroFrame)
              /\ \A l \in Landmarks : last'.ready = add_frame(l).is_ready)]_vars

\* a padding frame completed a window
C6_Witness ==
    /\ last.op = "add_frame" /\ last.arg = NoLandmarks /\ last.ready
    /\ buffer[Len(buffer)] = ZeroFrame
    /\ frame_count > window_size

\* C7: the value add_frame returns equals frame_count >= window_size and
\* (frame_count - window_size) mod stride = 0, whatever the frames are and
\* whatever resets came before.
C7_ReadyIsCountFunction ==
    last.op = "add_frame" =>
        (last.ready <=> (/\ frame_count >= window_size
                         /\ (frame_count - window_size) % stride = 0))

\* the buffer filled again after a reset (a full window from before it is held)
C7_Witness ==
    /\ last.op = "add_frame" /\ last.ready
    /\ frame_count = window_size
    /\ \E i \in DOMAIN windows : Len(windows[i].returned) = window_size

\* SlidingWindowBuffer(window_size, stride) followed by add_frame on each of
\* frames in turn: the buffer, the count and the value the last call returned
RECURSIVE fresh_buffer_run(_)
fresh_buffer_run(frames) ==
    IF frames = <<>>
    THEN [buffer |-> <<>>, frame_count |-> 0, is_ready |-> FALSE]
    ELSE LET before == fresh_buffer_run(SubSeq(frames, 1, Len(frames) - 1))
             landmarks == frames[Len(frames)]
             lm == IF landmarks = NoLandmarks THEN ZeroFrame ELSE landmarks
             nbuf == deque_append(before.buffer, lm)
             ncount == before.frame_count + 1
         IN [buffer |-> nbuf, frame_count |-> ncount,
             is_ready |-> /\ Len(nbuf) = window_size
                          /\ (ncount - window_size) % stride = 0]

\* C30: reset empties the buffer and zeroes frame_count, and the add_frame calls
\* made after a reset give the readiness values and the windows the same calls
\* give on a freshly constructed buffer of the same window_size and stride.
C30_ResetIsFresh ==
    /\ last.op = "reset" => (buffer = <<>> /\ frame_count = 0)
    /\ buffer = fresh_buffer_run(added).buffer
    /\ frame_count = fresh_buffer_run(added).frame_count
    /\ last.op = "add_frame" => last.ready = fresh_buffer_run(added).is_ready
    /\ Contents(get_sequence) = fresh_buffer_run(added).buffer

\* a buffer that was full before a reset (that window is still held) has just
\* filled again and is ready, with stride >= 2
C30_Witness ==
    /\ last.op = "add_frame" /\ last.ready
    /\ Len(added) = window_size /\ window_size >= 2 /\ stride >= 2
    /\ \E i \in DOMAIN windows : Len(windows[i].returned) = window_size
    /\ \E i \in DOMAIN buffer : buffer[i] = ZeroFrame

\* C31: a buffer whose stride is below 1 or above window_size is rejected at
\* construction, so no buffer with such a stride ever accepts a frame.
C31_BadStrideRejected ==
    (stride < 1 \/ stride > window_size) => frame_count = 0

\* C35: after any sequence of add_frame and reset calls the buffer holds
\* min(frame_count, window_size) frames.
C35_HeldIsMinCountWindow ==
    Len(buffer) = IF frame_count < window_size THEN frame_count ELSE window_size

\* a frame was added to a full buffer of two or more frames, so one was evicted
C35_Witness ==
    /\ last.op = "add_frame"
    /\ window_size >= 2
    /\ frame_count > window_size
    /\ Len(buffer) = window_size

(***************************************************************************)
(* StreamingRecognitionService                                             *)
(*                                                                         *)
(* get_streaming_service() keeps one instance in the module global         *)
(* _streaming_service and hands it to every caller, so the variables       *)
(* buffer, frame_count, session_id, is_active and inference_times are the  *)
(* one service every connection works on.  The singleton is built with     *)
(* window_size=30, stride=10; the model lets the constructor's arguments   *)
(* range over the bounded configurations.                                  *)
(***************************************************************************)

\* what a frame submitted to process_frame can be: bytes cv2.imdecode rejects,
\* an image on which the extractor raises, an image without a hand
\* (extract_landmarks returns None), an image with a hand
FrameInputs == {"undecodable", "extract_raises", NoLandmarks} \cup Landmarks

\* what engine.predict can do on a window: raise, or return after ms milliseconds
InferOutcomes ==
    {[raises |-> TRUE, ms |-> 0]} \cup {[raises |-> FALSE, ms |-> m] : m \in Latencies}

\* mutant: the time of a failed inference is recorded too
run_inference_records_failure(sequence, infer) ==
    [inference_times |-> Append(inference_times, infer.ms),
     ret |-> IF infer.raises THEN "error" ELSE "result"]

\* mutant: the sample of a successful inference is not recorded
run_inference_drops_sample(sequence, infer) ==
    [inference_times |-> inference_times,
     ret |-> IF infer.raises THEN "error" ELSE "result"]

\* _run_inference(sequence, handedness): the samples after the call and the
\* kind of dictionary returned ("result": a recognition result, "error": the
\* dictionary of the except branch)
run_inference(sequence, infer) ==
    IF infer.raises
    THEN [inference_times |-> inference_times, ret |-> "error"]
    ELSE [inference_times |-> Append(inference_times, infer.ms), ret |-> "result"]

\* whether process_frame(frame) gets as far as calling engine.predict
reaches_inference(frame) ==
    /\ frame \notin {"undecodable", "extract_raises"}
    /\ add_frame(frame).is_ready

\* mutant: an undecodable frame is padded like a frame without a hand
process_frame_pads_undecodable(frame, infer) ==
    IF frame = "extract_raises"
    THEN [buffer |-> buffer, frame_count |-> frame_count,
          inference_times |-> inference_times, ret |-> "None"]
    ELSE LET r == add_frame(IF frame = "undecodable" THEN NoLandmarks ELSE frame)
         IN IF r.is_ready
            THEN LET inf == run_inference(r.buffer, infer) IN
                 [buffer |-> r.buffer, frame_count |-> r.frame_count,
                  inference_times |-> inf.inference_times, ret |-> inf.ret]
            ELSE [buffer |-> r.buffer, frame_count |-> r.frame_count,
                  inference_times |-> inference_times, ret |-> "None"]

\* mutant: a frame without a hand is not put into the buffer
process_frame_skip_no_hand(frame, infer) ==
    IF frame \in {"undecodable", "extract_raises", NoLandmarks}
    THEN [buffer |-> buffer, frame_count |-> frame_count,
          inference_times |-> inference_times, ret |-> "None"]
    ELSE LET r == add_frame(frame) IN
         IF r.is_ready
         THEN LET inf == run_inference(r.buffer, infer) IN
              [buffer |-> r.buffer, frame_count |-> r.frame_count,
               inference_times |-> inf.inference_times, ret |-> inf.ret]
         ELSE [buffer |-> r.buffer, frame_count |-> r.frame_count,
               inference_times |-> inference_times, ret |-> "None"]

\* process_frame(frame_bytes): the service's buffer and samples after the call
\* and what it returns ("None": no dictionary).  is_active is not consulted.
process_frame(frame, infer) ==
    IF frame = "undecodable"
    THEN \* imdecode gave None: return None
         [buffer |-> buffer, frame_count |-> frame_count,
          inference_times |-> inference_times, ret |-> "None"]
    ELSE IF frame = "extract_raises"
    THEN \* caught by the except of process_frame: return None
         [buffer |-> buffer, frame_count |-> frame_count,
          inference_times |-> inference_times, ret |-> "None"]
    ELSE LET r == add_frame(frame) IN
         IF r.is_ready
         THEN LET sequence == [kind |-> get_sequence.kind, data |-> r.buffer]
                  inf == run_inference(sequence, infer)
              IN [buffer |-> r.buffer, frame_count |-> r.frame_count,
                  inference_times |-> inf.inference_times, ret |-> inf.ret]
         ELSE [buffer |-> r.buffer, frame_count |-> r.frame_count,
               inference_times |-> inference_times, ret |-> "None"]

\* start_session(session_id): sets the id and the flag, resets the buffer;
\* inference_times is not touched
start_session(sid) ==
    [session_id |-> sid, is_active |-> TRUE,
     buffer |-> reset.buffer, frame_count |-> reset.frame_count,
     inference_times |-> inference_times]

\* stop_session(): clears the flag (and logs)
\* mutant: stopping also resets the buffer
stop_session_resets ==
    [session_id |-> session_id, is_active |-> FALSE,
     buffer |-> <<>>, frame_count |-> 0,
     inference_times |-> inference_times]

stop_session ==
    [session_id |-> session_id, is_active |-> FALSE,
     buffer |-> buffer, frame_count |-> frame_count,
     inference_times |-> inference_times]

SeqMin(s) == CHOOSE x \in {s[i] : i \in DOMAIN s} : \A j \in DOMAIN s : x <= s[j]
SeqMax(s) == CHOOSE x \in {s[i] : i \in DOMAIN s} : \A j \in DOMAIN s : x >= s[j]

\* fps_target of the singleton service
FpsTarget == 30

SeqSum(s) == IF s = <<>> THEN 0
             ELSE LET f[i \in 0..Len(s)] == IF i = 0 THEN 0 ELSE f[i - 1] + s[i]
                  IN f[Len(s)]

\* the samples in ascending order
\* (its k-th element is the least sample that at least k samples do not exceed)
Sorted(s) ==
    LET upto(x) == Cardinality({i \in DOMAIN s : s[i] <= x})
    IN [k \in 1..Len(s) |->
            CHOOSE x \in {s[i] : i \in DOMAIN s} :
                /\ upto(x) >= k
                /\ \A y \in {s[i] : i \in DOMAIN s} : upto(y) >= k => x <= y]

\* np.mean and np.median as exact fractions
Mean(s) == [num |-> SeqSum(s), den |-> Len(s)]
Median(s) ==
    LET t == Sorted(s)
        n == Len(s)
    IN IF n % 2 = 1 THEN [num |-> t[(n + 1) \div 2], den |-> 1]
       ELSE [num |-> t[n \div 2] + t[n \div 2 + 1], den |-> 2]

\* get_performance_stats(): the dictionary returned, key by key
get_performance_stats ==
    IF inference_times = <<>>
    THEN [avg_inference_ms |-> 0, total_inferences |-> 0, target_fps |-> FpsTarget]
    ELSE [key \in {"avg_inference_ms", "median_inference_ms", "min_inference_ms",
                   "max_inference_ms", "total_inferences", "target_fps",
                   "actual_fps"} |->
            CASE key = "avg_inference_ms" -> Mean(inference_times)
              [] key = "median_inference_ms" -> Median(inference_times)
              [] key = "min_inference_ms" -> SeqMin(inference_times)
              [] key = "max_inference_ms" -> SeqMax(inference_times)
              [] key = "total_inferences" -> Len(inference_times)
              [] key = "target_fps" -> FpsTarget
              [] key = "actual_fps" -> FpsTarget]

(***************************************************************************)
(* Spec: the websocket handlers of the connections, on the one service.    *)
(* A handler runs without suspension from one await to the next;           *)
(* process_frame and _run_inference hold no await that suspends, so each   *)
(* inbound message is handled in one step.                                 *)
(***************************************************************************)

Init == InitBuffer

\* websocket_recognize up to the receive loop: get_streaming_service() and
\* start_session(session_id); the session id is the connection's own
Connect(c) ==
    /\ pc[c] = "none"
    /\ LET s == start_session(c) IN
        /\ session_id' = s.session_id
        /\ is_active' = s.is_active
        /\ buffer' = s.buffer
        /\ frame_count' = s.frame_count
        /\ inference_times' = s.inference_times
    /\ service_created' = TRUE
    /\ pc' = [pc EXCEPT ![c] = "open"]
    /\ calls' = 0
    /\ clean' = TRUE
    /\ last' = [op |-> "start_session", conn |-> c, arg |-> "-",
                ready |-> FALSE, ret |-> "-"]
    /\ UNCHANGED <<window_size, stride, windows, added>>
    /\ UNCHANGED <<engineVars, predictVars>>
    /\ UNCHANGED loopVars

\* a binary message: result = await service.process_frame(frame_bytes)
ReceiveFrame(c) ==
    /\ pc[c] = "open"
    /\ calls < MaxCalls
    /\ Len(inference_times) < MaxSamples
    /\ \E frame \in FrameInputs :
       \E infer \in IF reaches_inference(frame) THEN InferOutcomes
                     ELSE {[raises |-> FALSE, ms |-> 0]} :
        LET r == process_frame(frame, infer) IN
        /\ buffer' = r.buffer
        /\ frame_count' = r.frame_count
        /\ inference_times' = r.inference_times
        /\ clean' = (/\ clean
                     /\ frame \notin {"undecodable", "extract_raises"}
                     /\ r.ret # "error")
        /\ last' = [op |-> "process_frame", conn |-> c, arg |-> frame,
                    ready |-> FALSE, ret |-> r.ret]
    /\ calls' = calls + 1
    /\ UNCHANGED <<window_size, stride, windows, service_created, session_id,
                   is_active, pc, added>>
    /\ UNCHANGED <<engineVars, predictVars>>
    /\ UNCHANGED loopVars

\* a "get_stats" text message: stats = service.get_performance_stats()
ReceiveGetStats(c) ==
    /\ pc[c] = "open"
    /\ last' = [op |-> "get_performance_stats", conn |-> c, arg |-> "-",
                ready |-> FALSE, ret |-> "-"]
    /\ UNCHANGED <<bufferVars, windows, serviceVars, pc, added, calls, clean>>
    /\ UNCHANGED <<engineVars, predictVars>>
    /\ UNCHANGED loopVars

\* the handler's finally block (after a "stop" message, a disconnect or an
\* exception): service.stop_session()
Close(c) ==
    /\ pc[c] = "open"
    /\ LET s == stop_session IN
        /\ session_id' = s.session_id
        /\ is_active' = s.is_active
        /\ buffer' = s.buffer
        /\ frame_count' = s.frame_count
        /\ inference_times' = s.inference_times
    /\ pc' = [pc EXCEPT ![c] = "done"]
    /\ last' = [op |-> "stop_session", conn |-> c, arg |-> "-",
                ready |-> FALSE, ret |-> "-"]
    /\ UNCHANGED <<window_size, stride, windows, service_created, added, calls, clean>>
    /\ UNCHANGED <<engineVars, predictVars>>
    /\ UNCHANGED loopVars

Next == \E c \in Conns : Connect(c) \/ ReceiveFrame(c) \/ ReceiveGetStats(c) \/ Close(c)

Spec == Init /\ [][Next]_vars

(***************************************************************************)
(* Properties of the service (checked under Spec).                         *)
(***************************************************************************)

\* C3: while no frame of the session failed to decode, extract or infer, the
\* n-th process_frame call after start_session returns a recognition result
\* exactly when n >= window_size and (n - window_size) mod stride = 0, and
\* returns None otherwise.
C3_ResultCadence ==
    (last.op = "process_frame" /\ clean) =>
        /\ last.ret \in {"result", "None"}
        /\ last.ret = "result" <=> (/\ calls >= window_size
                                    /\ (calls - window_size) % stride = 0)

\* the second result of a session with stride >= 2, a no-hand frame included
C3_Witness ==
    /\ last.op = "process_frame" /\ clean /\ last.ret = "result"
    /\ stride >= 2
    /\ calls = window_size + stride
    /\ \E i \in DOMAIN buffer : buffer[i] = ZeroFrame

\* the service a connection's handler holds: the singleton
ServiceOf(c) ==
    [buffer |-> buffer, frame_count |-> frame_count,
     is_active |-> is_active, inference_times |-> inference_times]

\* C8: a step taken for one connection (a frame, a session start, a session
\* stop) leaves the buffer, the frame count, the active flag and the latency
\* samples of every other open connection as they were.
C8_SessionIsolation ==
    [][\A c \in Conns :
          (pc[c] = "open" /\ pc'[c] = "open" /\ last'.conn # c) =>
              ServiceOf(c)' = ServiceOf(c)]_vars

\* C9: once stop_session has been called, a process_frame call fails with
\* SessionClosed and changes neither the buffer, nor frame_count, nor the
\* latency samples.
C9_ClosedRejects ==
    [][(last'.op = "process_frame" /\ ~is_active) =>
          /\ last'.ret = "SessionClosed"
          /\ UNCHANGED <<buffer, frame_count, inference_times>>]_vars

\* C10: after start_session the session is active, the buffer is empty with
\* frame_count 0, and there are no latency samples (summary count 0).
C10_StartResets ==
    last.op = "start_session" =>
        /\ is_active
        /\ buffer = <<>> /\ frame_count = 0
        /\ inference_times = <<>>
        /\ get_performance_stats.total_inferences = 0


\* C22: process_frame on bytes that cannot be decoded returns None, leaves the
\* buffer, frame_count and the latency samples as they were, and the
\* connection stays open for the following frames.
C22_UndecodableFrame ==
    [][(last'.op = "process_frame" /\ last'.arg = "undecodable") =>
            /\ last'.ret = "None"
            /\ buffer' = buffer
            /\ frame_count' = frame_count
            /\ inference_times' = inference_times
            /\ pc'[last'.conn] = "open"]_vars

\* an undecodable frame arrived on an open connection whose service holds
\* frames and samples
C22_Witness ==
    /\ last.op = "process_frame" /\ last.arg = "undecodable"
    /\ last.ret = "None"
    /\ pc[last.conn] = "open"
    /\ buffer # <<>> /\ Len(buffer) < window_size
    /\ inference_times # <<>>

\* C24: an inference failure records no latency sample and changes the buffer
\* and frame_count by the triggering frame's append only; every classify call
\* is made on a newly appended, stride-aligned frame (no retry).
C24_FailureLeavesState ==
    [][last'.op = "process_frame" =>
        /\ last'.ret = "error" =>
              /\ inference_times' = inference_times
              /\ buffer' = deque_append(buffer, Padded(last'.arg))
              /\ frame_count' = frame_count + 1
        /\ last'.ret \in {"error", "result"} =>
              /\ frame_count' = frame_count + 1
              /\ Len(buffer') = window_size
              /\ (frame_count' - window_size) % stride = 0]_vars

\* an inference failed on a slid window after an earlier one had succeeded
C24_Witness ==
    /\ last.op = "process_frame" /\ last.ret = "error"
    /\ inference_times # <<>>
    /\ stride >= 2
    /\ frame_count = window_size + stride

\* the fields of the statistics
StatFields == {"avg_inference_ms", "median_inference_ms", "min_inference_ms",
               "max_inference_ms", "p95_inference_ms", "p99_inference_ms"}

\* C28: with no latency sample recorded the statistics have count 0 and mean,
\* median, min, max, p95 and p99 all 0.
C28_EmptyStatsAllZero ==
    (last.op = "get_performance_stats" /\ inference_times = <<>>) =>
        /\ get_performance_stats.total_inferences = 0
        /\ \A f \in StatFields :
            /\ f \in DOMAIN get_performance_stats
            /\ get_performance_stats[f] = 0

C11_ClosedIsTerminal ==
    (\E c \in Conns : pc[c] = "done") => ~is_active

\* C12: stop_session on an already stopped session completes and leaves
\* is_active false and the buffer, frame_count and the latency samples as they
\* were.
C12_StopIdempotent ==
    [][(last'.op = "stop_session" /\ ~is_active) =>
            /\ ~is_active'
            /\ pc'[last'.conn] = "done"
            /\ buffer' = buffer
            /\ frame_count' = frame_count
            /\ inference_times' = inference_times]_vars

\* a connection stopped the controller after the connection that started last
\* had already stopped it, with frames in the buffer
C12_Witness ==
    /\ last.op = "stop_session"
    /\ last.conn # session_id
    /\ \A c \in Conns : pc[c] = "done"
    /\ ~is_active
    /\ buffer # <<>>

(***************************************************************************)
(* Inference engines: ONNXInferenceEngine.predict and                      *)
(* MockInferenceEngine.predict.                                            *)
(*                                                                         *)
(* A confidence is an integer score.  The input window of the mock engine  *)
(* is represented by int(landmarks_sequence.sum() * 1000), the only thing  *)
(* the mock engine reads of it.                                            *)
(***************************************************************************)

\* class_names: chr(ord('A')) ... (the first letters)
ClassNames == <<"A", "B", "C", "D", "E", "F">>
ClassName(idx) == ClassNames[idx + 1]

\* class indices of an engine with n classes
Classes(n) == 0..(n - 1)

\* the values of top_k a caller can pass (the request field is an unconstrained int)
TopKs == 0..MaxTopK

\* the confidences a model outputs for a class
Confidences == {0, 1}

\* int(landmarks_sequence.sum() * 1000) of the windows submitted
WindowSums == {0, 1, 2, 1001}

\* the modulus of the mock engine's seed
SeedModulus == 1000

\* seq[::-1]
Reverse(seq) == [i \in 1..Len(seq) |-> seq[Len(seq) + 1 - i]]

\* seq[-k:] of Python: the last k elements for k > 0, the whole sequence for
\* k = 0 (-0 is 0), the elements from position -k on for k < 0
SliceLast(seq, k) ==
    LET n == Len(seq)
        start == IF k > 0 THEN (IF n - k > 0 THEN n - k ELSE 0)
                 ELSE IF k = 0 THEN 0
                 ELSE (IF -k < n THEN -k ELSE n)
    IN SubSeq(seq, start + 1, n)

\* the orders of the indices 0..n-1, for each n
IndexOrders ==
    [n \in 1..MaxClasses |->
        {p \in [1..n -> Classes(n)] : \A i, j \in 1..n : i # j => p[i] # p[j]}]

\* np.argsort(predictions): the index orders that sort the scores ascending.
\* The default sort is not stable: equal scores may come out in any order.
argsort_outcomes(scores) ==
    LET n == Cardinality(DOMAIN scores) IN
    {p \in IndexOrders[n] :
        \A i \in 1..(n - 1) : scores[p[i]] <= scores[p[i + 1]]}

\* mutant: the reversal [::-1] is missing
rank_top_k_ascending(order, scores, top_k) ==
    LET top_k_indices == SliceLast(order, top_k) IN
    [j \in 1..Len(top_k_indices) |->
        [class_index |-> top_k_indices[j],
         class_name |-> ClassName(top_k_indices[j]),
         confidence |-> scores[top_k_indices[j]]]]

\* top_k_indices = np.argsort(predictions)[-top_k:][::-1] and the formatting
\* loop, the same in both engines; order is what argsort returned
rank_top_k(order, scores, top_k) ==
    LET top_k_indices == Reverse(SliceLast(order, top_k)) IN
    [j \in 1..Len(top_k_indices) |->
        [class_index |-> top_k_indices[j],
         class_name |-> ClassName(top_k_indices[j]),
         confidence |-> scores[top_k_indices[j]]]]

\* ONNXInferenceEngine.predict: session.run raises (re-raised) or yields the
\* scores; ms is the time measured around it
onnx_predict(scores, order, top_k, raises, ms) ==
    IF raises
    THEN [raised |-> TRUE, predictions |-> <<>>, time |-> 0]
    ELSE [raised |-> FALSE, predictions |-> rank_top_k(order, scores, top_k),
          time |-> ms]

\* np.random.dirichlet(np.ones(n)) drawn in generator state rng (the seed and
\* the number of variates drawn since): a point of the simplex, a function of
\* the state; its coordinates are pairwise different (the distribution is
\* continuous).  The draw consumes n variates.
Dirichlet(rng, n) == [i \in Classes(n) |-> (i + rng.seed + rng.pos) % n]

\* 25.0 + np.random.rand() * 20.0 drawn in generator state rng
MockTime(rng) == 25 + ((rng.seed + rng.pos) % 20)

\* the scores the mock engine ranks for a window, given the generator state
\* np.random.seed leaves
mock_scores(sum1000) ==
    Dirichlet([seed |-> sum1000 % SeedModulus, pos |-> 0], num_classes)

\* mutant: the generator is not re-seeded from the input
mock_predict_unseeded(sum1000, order, top_k) ==
    LET scores == Dirichlet(np_rng, num_classes)
        ord == CHOOSE o \in argsort_outcomes(scores) : TRUE
    IN [raised |-> FALSE,
        predictions |-> rank_top_k(ord, scores, top_k),
        time |-> MockTime([seed |-> np_rng.seed, pos |-> np_rng.pos + num_classes]),
        np_rng |-> [seed |-> np_rng.seed,
                    pos |-> (np_rng.pos + num_classes + 1) % SeedModulus]]

\* MockInferenceEngine.predict: seed the global generator with
\* int(sum * 1000) % 1000, draw the scores, rank them, draw the time
mock_predict(sum1000, order, top_k) ==
    LET seeded == [seed |-> sum1000 % SeedModulus, pos |-> 0]
        scores == Dirichlet(seeded, num_classes)
    IN [raised |-> FALSE,
        predictions |-> rank_top_k(order, scores, top_k),
        time |-> MockTime([seed |-> seeded.seed, pos |-> num_classes]),
        np_rng |-> [seed |-> seeded.seed, pos |-> num_classes + 1]]

(***************************************************************************)
(* SpecPredict: predict calls on the engine the process selected, a real   *)
(* or a mock engine with num_classes classes.  One earlier mock call is    *)
(* remembered (any one: a call either replaces the remembered one or       *)
(* leaves it).                                                             *)
(***************************************************************************)

InitPredict ==
    /\ window_size = 1
    /\ stride = 1
    /\ buffer = <<>>
    /\ frame_count = 0
    /\ windows = <<>>
    /\ service_created = FALSE
    /\ session_id = "None"
    /\ is_active = FALSE
    /\ inference_times = <<>>
    /\ pc = [c \in Conns |-> "none"]
    /\ added = <<>>
    /\ calls = 0
    /\ clean = TRUE
    /\ last = NoOp
    /\ \/ inference_engine = "real" /\ mock_engine = "None" /\ use_mock = FALSE
       \/ inference_engine = "None" /\ mock_engine = "mock" /\ use_mock = TRUE
    /\ onnx_available = TRUE
    /\ np_rng \in {[seed |-> sd, pos |-> 0] : sd \in {0, 7}}
    /\ min_confidence = 0
    /\ num_classes \in 1..MaxClasses
    /\ call = NoCall
    /\ remembered = NoCall
    /\ ws_frame_count = [c \in Conns |-> 0]
    /\ outbox = [c \in Conns |-> <<>>]
    /\ ended_by = [c \in Conns |-> "-"]
    /\ active_connections = {}

\* how many calls ago the remembered call was made (2: two or more)
Aged(r) == IF r = NoCall THEN r
           ELSE [r EXCEPT !.calls_since = IF @ < 2 THEN @ + 1 ELSE 2]

PredictReal ==
    /\ inference_engine = "real"
    /\ \/ \E top_k \in TopKs :
            call' = [op |-> "predict", backend |-> "real", input |-> 0,
                     scores |-> <<>>, top_k |-> top_k, raised |-> TRUE,
                     predictions |-> <<>>, time |-> 0]
       \/ \E scores \in [Classes(num_classes) -> Confidences] :
            \E order \in argsort_outcomes(scores) :
              \E top_k \in TopKs, ms \in Latencies :
                LET r == onnx_predict(scores, order, top_k, FALSE, ms) IN
                call' = [op |-> "predict", backend |-> "real", input |-> 0,
                         scores |-> scores, top_k |-> top_k, raised |-> r.raised,
                         predictions |-> r.predictions, time |-> r.time]
    /\ UNCHANGED <<bufferVars, windows, serviceVars, pc, added, calls, clean,
                   last, engineVars, np_rng, min_confidence, num_classes,
                   remembered>>
    /\ UNCHANGED loopVars

PredictMock ==
    /\ use_mock /\ mock_engine = "mock"
    /\ \E sum1000 \in WindowSums, top_k \in TopKs :
        \E order \in argsort_outcomes(mock_scores(sum1000)) :
          LET r == mock_predict(sum1000, order, top_k) IN
          /\ call' = [op |-> "predict", backend |-> "mock", input |-> sum1000,
                      scores |-> mock_scores(sum1000), top_k |-> top_k,
                      raised |-> r.raised, predictions |-> r.predictions,
                      time |-> r.time]
          /\ np_rng' = r.np_rng
          /\ \/ remembered' = [input |-> sum1000, top_k |-> top_k,
                               predictions |-> r.predictions, calls_since |-> 0]
             \/ remembered' = Aged(remembered)
    /\ UNCHANGED <<bufferVars, windows, serviceVars, pc, added, calls, clean,
                   last, engineVars, min_confidence, num_classes>>
    /\ UNCHANGED loopVars

NextPredict == PredictReal \/ PredictMock

SpecPredict == InitPredict /\ [][NextPredict]_vars

(***************************************************************************)
(* Properties of predict (checked under SpecPredict).                      *)
(***************************************************************************)

\* C15: the list predict returns is ordered by non-increasing confidence, for
\* the real and for the mock engine and for every top_k.
C15_SortedByConfidence ==
    (call.op = "predict" /\ ~call.raised) =>
        \A i, j \in DOMAIN call.predictions :
            i < j => call.predictions[i].confidence >= call.predictions[j].confidence

\* a real engine returned three candidates, not all of the same confidence
C15_Witness ==
    /\ call.op = "predict" /\ call.backend = "real" /\ ~call.raised
    /\ Len(call.predictions) = 3
    /\ call.predictions[1].confidence > call.predictions[3].confidence

\* C16: of two classes with equal confidence the one with the smaller index is
\* ranked first, and when equal confidences straddle the cut-off the smaller
\* indices are the ones returned.
C16_TiesByAscendingIndex ==
    (call.op = "predict" /\ ~call.raised) =>
        LET ps == call.predictions
            returned == {ps[i].class_index : i \in DOMAIN ps}
        IN /\ \A i, j \in DOMAIN ps :
                (i < j /\ ps[i].confidence = ps[j].confidence) =>
                    ps[i].class_index < ps[j].class_index
           /\ \A c \in returned, d \in DOMAIN call.scores \ returned :
                call.scores[c] = call.scores[d] => c < d

\* C17: for top_k >= 0 predict returns exactly min(top_k, N) candidates, with
\* pairwise different class indices.
C17_ReturnsTopK ==
    (call.op = "predict" /\ ~call.raised /\ call.top_k >= 0) =>
        LET ps == call.predictions IN
        /\ Len(ps) = IF call.top_k < num_classes THEN call.top_k ELSE num_classes
        /\ \A i, j \in DOMAIN ps : i # j => ps[i].class_index # ps[j].class_index

\* C18: a mock predict call returns the list an earlier mock predict call with
\* the same window content and the same top_k returned, whatever calls were
\* made in between.
C18_MockDeterministic ==
    (/\ call.op = "predict" /\ call.backend = "mock"
     /\ remembered # NoCall
     /\ remembered.input = call.input /\ remembered.top_k = call.top_k) =>
        call.predictions = remembered.predictions

\* the same window again after other calls, with several candidates
C18_Witness ==
    /\ call.op = "predict" /\ call.backend = "mock"
    /\ remembered # NoCall /\ remembered.calls_since = 2
    /\ remembered.input = call.input /\ remembered.top_k = call.top_k
    /\ num_classes = 3 /\ Len(call.predictions) >= 2

(***************************************************************************)
(* Engine selection (get_inference_engine, is_mock_engine, startup_event)  *)
(* and StreamingRecognitionService._run_inference in full.                 *)
(***************************************************************************)

\* model_path arguments: absent, or the path of a model file
ModelPaths == {"None", "checkpoints/model.onnx"}

\* the hands the extractor reports
Handednesses == {"Unknown", "Right"}

\* the min_confidence a service is constructed with
Thresholds == {0, 1, 2}

\* top_k=5 of the predict call in _run_inference
TopKStreaming == 5

\* the module-level singletons _inference_engine, _mock_engine, _use_mock
EngineState ==
    [inference_engine |-> inference_engine, mock_engine |-> mock_engine,
     use_mock |-> use_mock]

\* mutant: a call with a model path tries the real engine again although the
\* mock engine is in use
get_inference_engine_retry_real(st, model_path, allow_mock, construct_ok) ==
    IF st.inference_engine # "None"
    THEN [state |-> st, ret |-> "real"]
    ELSE IF st.use_mock /\ st.mock_engine # "None" /\ model_path = "None"
    THEN [state |-> st, ret |-> "mock"]
    ELSE IF model_path # "None" /\ onnx_available /\ construct_ok
    THEN [state |-> [st EXCEPT !.inference_engine = "real", !.use_mock = FALSE],
          ret |-> "real"]
    ELSE IF model_path # "None" /\ onnx_available /\ ~allow_mock
    THEN [state |-> st, ret |-> "raise"]
    ELSE IF allow_mock
    THEN [state |-> [st EXCEPT !.mock_engine = "mock", !.use_mock = TRUE],
          ret |-> "mock"]
    ELSE [state |-> st, ret |-> "raise"]

\* mutant: a failed construction is re-raised whatever allow_mock is
get_inference_engine_reraise(st, model_path, allow_mock, construct_ok) ==
    IF st.inference_engine # "None"
    THEN [state |-> st, ret |-> "real"]
    ELSE IF st.use_mock /\ st.mock_engine # "None"
    THEN [state |-> st, ret |-> "mock"]
    ELSE IF model_path # "None" /\ onnx_available /\ construct_ok
    THEN [state |-> [st EXCEPT !.inference_engine = "real"], ret |-> "real"]
    ELSE IF model_path # "None" /\ onnx_available
    THEN [state |-> st, ret |-> "raise"]
    ELSE IF allow_mock
    THEN [state |-> [st EXCEPT !.mock_engine = "mock", !.use_mock = TRUE],
          ret |-> "mock"]
    ELSE [state |-> st, ret |-> "raise"]

\* mutant: the fallback hands out a mock engine it does not keep
get_inference_engine_unkept_mock(st, model_path, allow_mock, construct_ok) ==
    IF st.inference_engine # "None"
    THEN [state |-> st, ret |-> "real"]
    ELSE IF st.use_mock /\ st.mock_engine # "None"
    THEN [state |-> st, ret |-> "mock"]
    ELSE IF model_path # "None" /\ onnx_available /\ construct_ok
    THEN [state |-> [st EXCEPT !.inference_engine = "real"], ret |-> "real"]
    ELSE IF model_path # "None" /\ onnx_available /\ ~allow_mock
    THEN [state |-> st, ret |-> "raise"]
    ELSE IF allow_mock
    THEN [state |-> [st EXCEPT !.use_mock = TRUE], ret |-> "mock"]
    ELSE [state |-> st, ret |-> "raise"]

\* get_inference_engine(model_path, class_names, allow_mock) called with the
\* singletons st; construct_ok: whether ONNXInferenceEngine(...) succeeds.
\* Gives the singletons after the call and what it returns ("raise": it raises)
get_inference_engine(st, model_path, allow_mock, construct_ok) ==
    IF st.inference_engine # "None"
    THEN [state |-> st, ret |-> "real"]
    ELSE IF st.use_mock /\ st.mock_engine # "None"
    THEN [state |-> st, ret |-> "mock"]
    ELSE IF model_path # "None" /\ onnx_available /\ construct_ok
    THEN [state |-> [st EXCEPT !.inference_engine = "real"], ret |-> "real"]
    ELSE IF model_path # "None" /\ onnx_available /\ ~allow_mock
    THEN \* the except branch re-raises
         [state |-> st, ret |-> "raise"]
    ELSE IF allow_mock
    THEN [state |-> [st EXCEPT !.mock_engine = "mock", !.use_mock = TRUE],
          ret |-> "mock"]
    ELSE [state |-> st, ret |-> "raise"]

is_mock_engine(st) == st.use_mock

\* startup_event(): path_exists is os.path.exists(model_path), benchmark_ok
\* whether engine.benchmark returns.  completed: the handler did not raise;
\* engine: what its last get_inference_engine call returned
startup_event(st, path_exists, construct_ok, benchmark_ok) ==
    LET first == IF path_exists
                 THEN get_inference_engine(st, "checkpoints/model.onnx", TRUE,
                                           construct_ok)
                 ELSE get_inference_engine(st, "None", TRUE, construct_ok)
        excepted == \/ first.ret = "raise"
                    \/ /\ path_exists
                       /\ ~is_mock_engine(first.state)
                       /\ ~benchmark_ok
        again == get_inference_engine(first.state, "None", TRUE, construct_ok)
    IN IF ~excepted
       THEN [state |-> first.state, completed |-> TRUE, engine |-> first.ret]
       ELSE [state |-> again.state, completed |-> again.ret # "raise",
             engine |-> again.ret]

\* mutant: a candidate at the threshold is dropped
filter_predictions_strict(predictions) ==
    SelectSeq(predictions, LAMBDA p : p.confidence > min_confidence)

\* filtered_predictions: the candidates with conf >= self.min_confidence, in
\* the order predict returned them
filter_predictions(predictions) ==
    SelectSeq(predictions, LAMBDA p : p.confidence >= min_confidence)

\* mutant: the top sign is taken from the unfiltered list
recognition_result_unfiltered_top(predictions, inference_time, handedness) ==
    LET filtered_predictions == filter_predictions(predictions) IN
    [sign |-> IF predictions # <<>> THEN predictions[1].class_name ELSE "None",
     confidence |-> IF predictions # <<>> THEN predictions[1].confidence ELSE 0,
     timestamp |-> "utcnow",
     inference_time_ms |-> inference_time,
     handedness |-> handedness,
     all_predictions |-> filtered_predictions,
     landmarks_detected |-> TRUE]

\* the dictionary _run_inference returns when predict returned
recognition_result(predictions, inference_time, handedness) ==
    LET filtered_predictions == filter_predictions(predictions)
        has_top == filtered_predictions # <<>>
    IN [sign |-> IF has_top THEN filtered_predictions[1].class_name ELSE "None",
        confidence |-> IF has_top THEN filtered_predictions[1].confidence ELSE 0,
        timestamp |-> "utcnow",
        inference_time_ms |-> inference_time,
        handedness |-> handedness,
        all_predictions |-> filtered_predictions,
        landmarks_detected |-> TRUE]

\* the dictionary of the except branch of _run_inference
error_result ==
    [sign |-> "None", confidence |-> 0, timestamp |-> "utcnow",
     error |-> "str(e)"]

\* what _run_inference did: the engine it got, what predict gave, the
\* dictionary it returned, and the samples there were before
InferenceCall(acquired, r, result) ==
    [op |-> "run_inference", acquired |-> acquired, raised |-> r.raised,
     predictions |-> r.predictions, time |-> r.time, result |-> result,
     samples_before |-> inference_times]

\* _run_inference(sequence, handedness) on the window in the buffer
RunInference ==
    /\ Len(inference_times) < MaxSamples
    /\ LET g == get_inference_engine(EngineState, "None", TRUE, TRUE) IN
       /\ inference_engine' = g.state.inference_engine
       /\ mock_engine' = g.state.mock_engine
       /\ use_mock' = g.state.use_mock
       /\ \/ /\ g.ret = "raise"
             /\ call' = InferenceCall(g.ret,
                            [raised |-> TRUE, predictions |-> <<>>, time |-> 0],
                            error_result)
             /\ UNCHANGED <<inference_times, np_rng>>
          \/ /\ g.ret = "real"
             /\ \E scores \in [Classes(num_classes) -> Confidences] :
                 \E order \in argsort_outcomes(scores) :
                  \E infer \in InferOutcomes, handedness \in Handednesses :
                   LET r == onnx_predict(scores, order, TopKStreaming,
                                         infer.raises, infer.ms)
                       inf == run_inference(buffer, infer)
                   IN /\ inference_times' = inf.inference_times
                      /\ call' = InferenceCall(g.ret, r,
                                    IF inf.ret = "error" THEN error_result
                                    ELSE recognition_result(r.predictions, r.time,
                                                            handedness))
             /\ UNCHANGED np_rng
          \/ /\ g.ret = "mock"
             /\ \E sum1000 \in WindowSums, handedness \in Handednesses :
                 \E order \in argsort_outcomes(mock_scores(sum1000)) :
                   LET r == mock_predict(sum1000, order, TopKStreaming)
                       inf == run_inference(buffer, [raises |-> r.raised,
                                                     ms |-> r.time])
                   IN /\ inference_times' = inf.inference_times
                      /\ np_rng' = r.np_rng
                      /\ call' = InferenceCall(g.ret, r,
                                    recognition_result(r.predictions, r.time,
                                                       handedness))
    /\ UNCHANGED <<window_size, stride, buffer, frame_count, windows,
                   service_created, session_id, is_active, pc, added, calls,
                   clean, last, onnx_available, min_confidence, num_classes,
                   remembered>>
    /\ UNCHANGED loopVars

\* a call of get_inference_engine by any caller
GetInferenceEngine ==
    \E model_path \in ModelPaths, allow_mock \in BOOLEAN, construct_ok \in BOOLEAN :
        LET g == get_inference_engine(EngineState, model_path, allow_mock,
                                      construct_ok)
        IN /\ inference_engine' = g.state.inference_engine
           /\ mock_engine' = g.state.mock_engine
           /\ use_mock' = g.state.use_mock
           /\ call' = [op |-> "get_inference_engine", model_path |-> model_path,
                       allow_mock |-> allow_mock, construct_ok |-> construct_ok,
                       before |-> EngineState, ret |-> g.ret]
           /\ UNCHANGED <<bufferVars, windows, serviceVars, pc, added, calls,
                          clean, last, onnx_available, np_rng, min_confidence,
                          num_classes, remembered>>
           /\ UNCHANGED loopVars

\* the startup handler of the application
StartupEvent ==
    \E path_exists \in BOOLEAN, construct_ok \in BOOLEAN, benchmark_ok \in BOOLEAN :
        LET r == startup_event(EngineState, path_exists, construct_ok,
                               benchmark_ok)
        IN /\ inference_engine' = r.state.inference_engine
           /\ mock_engine' = r.state.mock_engine
           /\ use_mock' = r.state.use_mock
           /\ call' = [op |-> "startup_event", path_exists |-> path_exists,
                       construct_ok |-> construct_ok,
                       benchmark_ok |-> benchmark_ok, before |-> EngineState,
                       completed |-> r.completed, engine |-> r.engine]
           /\ UNCHANGED <<bufferVars, windows, serviceVars, pc, added, calls,
                          clean, last, onnx_available, np_rng, min_confidence,
                          num_classes, remembered>>
           /\ UNCHANGED loopVars

\* the variables the engine specifications do not use
InitIdleService ==
    /\ window_size = 1
    /\ stride = 1
    /\ buffer = <<>>
    /\ frame_count = 0
    /\ windows = <<>>
    /\ service_created = FALSE
    /\ session_id = "None"
    /\ is_active = FALSE
    /\ inference_times = <<>>
    /\ pc = [c \in Conns |-> "none"]
    /\ added = <<>>
    /\ calls = 0
    /\ clean = TRUE
    /\ last = NoOp
    /\ call = NoCall
    /\ remembered = NoCall
    /\ ws_frame_count = [c \in Conns |-> 0]
    /\ outbox = [c \in Conns |-> <<>>]
    /\ ended_by = [c \in Conns |-> "-"]
    /\ active_connections = {}
    /\ np_rng = [seed |-> 0, pos |-> 0]

(***************************************************************************)
(* SpecEngine: the process from import on: no engine exists yet; the       *)
(* startup handler, callers of get_inference_engine and inferences run in  *)
(* any order.                                                              *)
(***************************************************************************)

InitEngine ==
    /\ InitIdleService
    /\ inference_engine = "None"
    /\ mock_engine = "None"
    /\ use_mock = FALSE
    /\ onnx_available \in BOOLEAN
    /\ min_confidence = 0
    /\ num_classes = 1

NextEngine == GetInferenceEngine \/ StartupEvent \/ RunInference

SpecEngine == InitEngine /\ [][NextEngine]_vars

(***************************************************************************)
(* SpecInfer: inferences of a service constructed with any threshold, on   *)
(* a process in any of the engine configurations SpecEngine reaches.       *)
(***************************************************************************)

InitInfer ==
    /\ InitIdleService
    /\ \/ inference_engine = "None" /\ mock_engine = "None" /\ use_mock = FALSE
       \/ inference_engine = "real" /\ mock_engine = "None" /\ use_mock = FALSE
       \/ inference_engine = "None" /\ mock_engine = "mock" /\ use_mock = TRUE
    /\ onnx_available = TRUE
    /\ min_confidence \in Thresholds
    /\ num_classes \in 1..MaxClasses

NextInfer == RunInference

SpecInfer == InitInfer /\ [][NextInfer]_vars

(***************************************************************************)
(* Properties of _run_inference (checked under SpecInfer) and of the       *)
(* engine selection (checked under SpecEngine).                            *)
(***************************************************************************)

\* the positions of the backend's candidates that reach the threshold
KeptPositions(ps) == {i \in DOMAIN ps : ps[i].confidence >= min_confidence}

\* C13: all_predictions holds exactly the backend's candidates with confidence
\* >= min_confidence, in the backend's order; none below the threshold is in
\* it; the reported sign is that of its first element.
C13_FilteredCandidates ==
    (call.op = "run_inference" /\ ~call.raised) =>
        LET ps == call.predictions
            kept == KeptPositions(ps)
            out == call.result.all_predictions
        IN /\ Len(out) = Cardinality(kept)
           /\ \A i \in kept :
                out[Cardinality({k \in kept : k < i}) + 1] = ps[i]
           /\ \A j \in DOMAIN out : out[j].confidence >= min_confidence
           /\ call.result.sign =
                IF out = <<>> THEN "None" ELSE out[1].class_name

\* some candidates were dropped, and one exactly at the threshold was kept
C13_Witness ==
    /\ call.op = "run_inference" /\ ~call.raised
    /\ Len(call.result.all_predictions) >= 1
    /\ Len(call.result.all_predictions) < Len(call.predictions)
    /\ \E j \in DOMAIN call.result.all_predictions :
            call.result.all_predictions[j].confidence = min_confidence
    /\ call.result.sign = call.result.all_predictions[1].class_name

\* every candidate the backend returned is below the threshold
AllBelow == \A i \in DOMAIN call.predictions :
                call.predictions[i].confidence < min_confidence

\* C14: when every candidate of the backend is below min_confidence the result
\* has no sign (None), confidence 0 and an empty candidate list, its latency
\* field holds the inference time, and the latency sample is recorded.
C14_AllBelowThreshold ==
    (call.op = "run_inference" /\ ~call.raised /\ AllBelow) =>
        /\ call.result.sign = "None"
        /\ call.result.confidence = 0
        /\ call.result.all_predictions = <<>>
        /\ call.result.inference_time_ms = call.time
        /\ inference_times = Append(call.samples_before, call.time)

\* the backend returned several candidates, all below the threshold
C14_Witness ==
    /\ call.op = "run_inference" /\ ~call.raised
    /\ Len(call.predictions) >= 2
    /\ AllBelow
    /\ call.result.sign = "None"
    /\ inference_times # <<>>

\* C19: every recognition result has a backend-status field, "fallback" exactly
\* when is_mock_engine() is true and "real" otherwise.
C19_BackendStatus ==
    (call.op = "run_inference" /\ ~call.raised) =>
        /\ "backend_status" \in DOMAIN call.result
        /\ call.result.backend_status =
                IF is_mock_engine(EngineState) THEN "fallback" ELSE "real"

\* the engine the call recorded in c got from get_inference_engine ("raise":
\* none, "none": no call yet)
Returned(c) ==
    IF c.op = "get_inference_engine" THEN c.ret
    ELSE IF c.op = "run_inference" THEN c.acquired
    ELSE IF c.op = "startup_event" THEN c.engine
    ELSE "none"

\* C21: once a call of get_inference_engine has returned an engine, every later
\* call returns that engine, whatever its arguments, and is_mock_engine() keeps
\* its value.
C21_SelectedOnce ==
    [][Returned(call) \in {"real", "mock"} =>
            /\ Returned(call') = Returned(call)
            /\ is_mock_engine(EngineState)' = is_mock_engine(EngineState)
            /\ is_mock_engine(EngineState) <=> Returned(call) = "mock"]_vars

\* with the mock engine selected, a call that names a model whose construction
\* would succeed, and forbids the mock, still returned the mock engine
C21_Witness ==
    /\ call.op = "get_inference_engine"
    /\ call.before.use_mock /\ call.before.mock_engine = "mock"
    /\ call.model_path # "None" /\ call.construct_ok /\ ~call.allow_mock
    /\ onnx_available
    /\ call.ret = "mock"
    /\ use_mock /\ inference_engine = "None"

\* C20: get_inference_engine with allow_mock=True never raises, and returns the
\* mock engine when there is no real engine and none is configured or its
\* construction fails; startup_event completes, leaving an engine; no
\* inference fails to get an engine.
C20_FallbackNeverRaises ==
    /\ (call.op = "get_inference_engine" /\ call.allow_mock) =>
        /\ call.ret # "raise"
        /\ (/\ call.before.inference_engine = "None"
            /\ \/ call.model_path = "None"
               \/ ~onnx_available
               \/ ~call.construct_ok) => call.ret = "mock"
    /\ call.op = "startup_event" =>
        /\ call.completed
        /\ \/ inference_engine # "None"
           \/ use_mock /\ mock_engine # "None"
    /\ call.op = "run_inference" =>
        /\ call.acquired # "raise"
        /\ "error" \in DOMAIN call.result => call.raised

\* with no engine yet, the construction of the configured model failed and the
\* mock engine was returned
C20_Witness ==
    /\ call.op = "get_inference_engine"
    /\ call.allow_mock
    /\ call.model_path # "None" /\ onnx_available /\ ~call.construct_ok
    /\ call.before = [inference_engine |-> "None", mock_engine |-> "None",
                      use_mock |-> FALSE]
    /\ call.ret = "mock"
    /\ use_mock /\ mock_engine = "mock"

\* C38: get_inference_engine called with allow_mock=False never returns the
\* mock engine, whatever the singletons hold: it returns a real engine or
\* raises.
C38_NoMockWhenForbidden ==
    (call.op = "get_inference_engine" /\ ~call.allow_mock) =>
        call.ret \in {"real", "raise"}

\* C39: a real engine and the mock flag exclude each other, the mock flag
\* implies a mock engine, and is_mock_engine() is true exactly when the engine
\* handed out is the mock engine.
C39_RealExcludesMock ==
    /\ inference_engine # "None" => ~use_mock
    /\ use_mock => mock_engine # "None"
    /\ Returned(call) \in {"real", "mock"} =>
            (is_mock_engine(EngineState) <=> Returned(call) = "mock")

\* with the mock engine in use, a call that allows the mock and names a model
\* that would load was given the mock engine again: no real engine was made
C39_Witness ==
    /\ call.op = "get_inference_engine"
    /\ call.allow_mock
    /\ call.before = [inference_engine |-> "None", mock_engine |-> "mock",
                      use_mock |-> TRUE]
    /\ call.model_path # "None" /\ call.construct_ok /\ onnx_available
    /\ call.ret = "mock"
    /\ is_mock_engine(EngineState)
    /\ inference_engine = "None"

(***************************************************************************)
(* The event loop: websocket_recognize in full, with the events it sends.  *)
(*                                                                         *)
(* All handlers run on one asyncio event loop.  engine.predict is called   *)
(* synchronously inside the coroutine (no await, no executor), so while a  *)
(* classify call runs the loop runs nothing else.  The classify call is a  *)
(* step of its own here: a handler at "inferring" is inside predict.       *)
(***************************************************************************)

\* the configurations of the service the loop is explored with
LoopWindowSizes == {1, 2}
LoopStrides == {1}

\* the binary messages the loop is explored with: one that does not decode and
\* one showing a hand
LoopFrameInputs == {"undecodable"} \cup Landmarks

\* text messages: the three control messages, a JSON object of another type,
\* and text json.loads rejects
TextMessages == {"ping", "get_stats", "stop", "other", "malformed"}

\* if frame_count % 100 == 0: the heartbeat
HeartbeatEvery == 100

\* no handler is inside a classify call: the loop can run a handler
LoopIdle == \A c \in Conns : pc[c] # "inferring"

\* frames handled so far, over all connections
LoopFrames == ws_frame_count["a"] + ws_frame_count["b"]

\* events sent so far, over all connections
LoopEvents == Len(outbox["a"]) + Len(outbox["b"])

\* the payloads of send_json: the type, the session_id field ("-": none), the
\* frame_count field (0: none) and whether there is an "error" field; sid is
\* the handler's local session_id, fc its local frame_count
welcome_event(sid) ==
    [type |-> "connection", session_id |-> sid, frame_count |-> 0, error |-> FALSE]
pong_event ==
    [type |-> "pong", session_id |-> "-", frame_count |-> 0, error |-> FALSE]
stats_event(sid, fc) ==
    [type |-> "stats", session_id |-> sid, frame_count |-> fc, error |-> FALSE]
error_event ==
    [type |-> "error", session_id |-> "-", frame_count |-> 0, error |-> TRUE]

\* mutant: the event carries the service's frame_count
recognition_event_service_count(ret, sid, fc) ==
    [type |-> "recognition", session_id |-> sid, frame_count |-> frame_count,
     error |-> ret = "error"]

\* mutant: the event carries the session_id field of the service
recognition_event_service_session(ret, sid, fc) ==
    [type |-> "recognition", session_id |-> session_id, frame_count |-> fc,
     error |-> ret = "error"]

\* result["type"] = "recognition"; result["session_id"] = session_id;
\* result["frame_count"] = frame_count: ret is what process_frame returned, a
\* recognition result or the error dictionary
recognition_event(ret, sid, fc) ==
    [type |-> "recognition", session_id |-> sid, frame_count |-> fc,
     error |-> ret = "error"]

\* mutant: the heartbeat goes out before the frame's recognition event
frame_events_heartbeat_first(ret, sid, fc) ==
    (IF fc % HeartbeatEvery = 0 THEN <<stats_event(sid, fc)>> ELSE <<>>)
    \o (IF ret # "None" THEN <<recognition_event(ret, sid, fc)>> ELSE <<>>)

\* what the handler sends after process_frame returned ret for its fc-th frame
frame_events(ret, sid, fc) ==
    (IF ret # "None" THEN <<recognition_event(ret, sid, fc)>> ELSE <<>>)
    \o (IF fc % HeartbeatEvery = 0 THEN <<stats_event(sid, fc)>> ELSE <<>>)

\* the outbox of c after the events were sent; each is stamped with the
\* handler's frame count at the time and with what it answered
Sent(c, events, fc, cause) ==
    [outbox EXCEPT ![c] = @ \o
        [i \in 1..Len(events) |->
            [type |-> events[i].type, session_id |-> events[i].session_id,
             frame_count |-> events[i].frame_count, error |-> events[i].error,
             at_frame |-> fc, cause |-> cause]]]

\* accept, the id is registered, and get_streaming_service raises: the first
\* call constructs the service, whose extractor is built by the MediaPipe
\* library; lines 80-81 are outside the try, so nothing of the handler runs
\* after the exception
LoopConnectFails(c) ==
    /\ LoopIdle
    /\ pc[c] = "none"
    /\ ~service_created
    /\ active_connections' = active_connections \cup {c}
    /\ pc' = [pc EXCEPT ![c] = "done"]
    /\ ended_by' = [ended_by EXCEPT ![c] = "setup"]
    /\ last' = [op |-> "get_streaming_service", conn |-> c, arg |-> "-",
                ready |-> FALSE, ret |-> "raised"]
    /\ UNCHANGED <<bufferVars, windows, serviceVars, added, calls, clean,
                   ws_frame_count, outbox, engineVars, predictVars>>

\* accept, the id is registered, start_session, the welcome message
LoopConnect(c) ==
    /\ LoopIdle
    /\ pc[c] = "none"
    /\ active_connections' = active_connections \cup {c}
    /\ LET s == start_session(c) IN
        /\ session_id' = s.session_id
        /\ is_active' = s.is_active
        /\ buffer' = s.buffer
        /\ frame_count' = s.frame_count
        /\ inference_times' = s.inference_times
    /\ service_created' = TRUE
    /\ pc' = [pc EXCEPT ![c] = "open"]
    /\ outbox' = Sent(c, <<welcome_event(c)>>, 0, "open")
    /\ last' = [op |-> "start_session", conn |-> c, arg |-> "-",
                ready |-> FALSE, ret |-> "-"]
    /\ UNCHANGED <<window_size, stride, windows, added, calls, clean,
                   ws_frame_count, ended_by, engineVars, predictVars>>

\* a binary message, up to the classify call: the frame is counted, decoded,
\* extracted and added; a ready window enters predict, otherwise process_frame
\* returns None and the handler sends what it sends for None; start is the
\* number of frames handled before the exploration began
LoopReceiveFrameFrom(c, start) ==
    /\ LoopIdle
    /\ pc[c] = "open"
    /\ LoopFrames < start + MaxLoopFrames
    /\ LoopEvents < MaxLoopEvents
    /\ Len(inference_times) < MaxSamples
    /\ ws_frame_count' = [ws_frame_count EXCEPT ![c] = @ + 1]
    /\ \E frame \in LoopFrameInputs :
        IF reaches_inference(frame)
        THEN /\ buffer' = add_frame(frame).buffer
             /\ frame_count' = add_frame(frame).frame_count
             /\ pc' = [pc EXCEPT ![c] = "inferring"]
             /\ last' = [op |-> "predict", conn |-> c, arg |-> frame,
                         ready |-> TRUE, ret |-> "-"]
             /\ UNCHANGED outbox
        ELSE LET r == process_frame(frame, [raises |-> FALSE, ms |-> 0]) IN
             /\ buffer' = r.buffer
             /\ frame_count' = r.frame_count
             /\ outbox' = Sent(c, frame_events(r.ret, c, ws_frame_count'[c]),
                               ws_frame_count'[c], "frame")
             /\ last' = [op |-> "process_frame", conn |-> c, arg |-> frame,
                         ready |-> FALSE, ret |-> r.ret]
             /\ UNCHANGED pc
    /\ UNCHANGED <<window_size, stride, windows, service_created, session_id,
                   is_active, inference_times, added, calls, clean, ended_by,
                   active_connections, engineVars, predictVars>>

LoopReceiveFrame(c) == LoopReceiveFrameFrom(c, 0)

\* the classify call returns or raises; _run_inference builds its dictionary,
\* process_frame returns it and the handler sends it
LoopPredictReturns(c) ==
    /\ pc[c] = "inferring"
    /\ \E infer \in InferOutcomes :
        LET inf == run_inference(buffer, infer) IN
        /\ inference_times' = inf.inference_times
        /\ outbox' = Sent(c, frame_events(inf.ret, c, ws_frame_count[c]),
                          ws_frame_count[c], "frame")
        /\ last' = [op |-> "process_frame", conn |-> c, arg |-> last.arg,
                    ready |-> TRUE, ret |-> inf.ret]
    /\ pc' = [pc EXCEPT ![c] = "open"]
    /\ UNCHANGED <<bufferVars, windows, service_created, session_id, is_active,
                   added, calls, clean, ws_frame_count, ended_by,
                   active_connections, engineVars, predictVars>>

\* the finally block: stop_session, the id is taken out of the registry
\* (closing the websocket is not modelled)
LoopFinally(c, cause) ==
    /\ LET s == stop_session IN
        /\ session_id' = s.session_id
        /\ is_active' = s.is_active
        /\ buffer' = s.buffer
        /\ frame_count' = s.frame_count
        /\ inference_times' = s.inference_times
    /\ pc' = [pc EXCEPT ![c] = "done"]
    /\ ended_by' = [ended_by EXCEPT ![c] = cause]
    /\ active_connections' = active_connections \ {c}

\* a text message: json.loads, then the branch of its type; text json.loads
\* rejects raises into the except Exception clause, which sends an error
\* event and falls into the finally block
LoopReceiveText(c) ==
    /\ LoopIdle
    /\ pc[c] = "open"
    /\ LoopEvents < MaxLoopEvents
    /\ \E msg \in TextMessages :
        /\ last' = [op |-> "text", conn |-> c, arg |-> msg,
                    ready |-> FALSE, ret |-> "-"]
        /\ CASE msg = "ping" ->
                  /\ outbox' = Sent(c, <<pong_event>>, ws_frame_count[c], "text")
                  /\ UNCHANGED <<buffer, frame_count, serviceVars, pc, ended_by,
                                 active_connections>>
             [] msg = "get_stats" ->
                  /\ outbox' = Sent(c, <<stats_event(c, 0)>>, ws_frame_count[c], "text")
                  /\ UNCHANGED <<buffer, frame_count, serviceVars, pc, ended_by,
                                 active_connections>>
             [] msg = "other" ->
                  UNCHANGED <<outbox, buffer, frame_count, serviceVars, pc, ended_by,
                              active_connections>>
             [] msg = "stop" ->
                  /\ LoopFinally(c, "stop")
                  /\ UNCHANGED <<outbox, service_created>>
             [] msg = "malformed" ->
                  /\ outbox' = Sent(c, <<error_event>>, ws_frame_count[c], "exception")
                  /\ LoopFinally(c, "exception")
                  /\ UNCHANGED service_created
    /\ UNCHANGED <<window_size, stride, windows, added, calls, clean,
                   ws_frame_count, engineVars, predictVars>>

\* the transport reports the disconnect at the next receive
LoopDisconnect(c) ==
    /\ LoopIdle
    /\ pc[c] = "open"
    /\ LoopFinally(c, "disconnect")
    /\ last' = [op |-> "disconnect", conn |-> c, arg |-> "-",
                ready |-> FALSE, ret |-> "-"]
    /\ UNCHANGED <<window_size, stride, windows, service_created, added, calls,
                   clean, ws_frame_count, outbox, engineVars, predictVars>>

InitLoop ==
    /\ window_size \in LoopWindowSizes
    /\ stride \in LoopStrides
    /\ buffer = <<>>
    /\ frame_count = 0
    /\ windows = <<>>
    /\ service_created = FALSE
    /\ session_id = "None"
    /\ is_active = FALSE
    /\ inference_times = <<>>
    /\ pc = [c \in Conns |-> "none"]
    /\ added = <<>>
    /\ calls = 0
    /\ clean = TRUE
    /\ last = NoOp
    /\ call = NoCall
    /\ remembered = NoCall
    /\ ws_frame_count = [c \in Conns |-> 0]
    /\ outbox = [c \in Conns |-> <<>>]
    /\ ended_by = [c \in Conns |-> "-"]
    /\ active_connections = {}
    /\ np_rng = [seed |-> 0, pos |-> 0]
    /\ inference_engine = "real"
    /\ mock_engine = "None"
    /\ use_mock = FALSE
    /\ onnx_available = TRUE
    /\ min_confidence = 0
    /\ num_classes = 1

NextLoop ==
    \E c \in Conns :
        \/ LoopConnect(c)
        \/ LoopConnectFails(c)
        \/ LoopReceiveFrame(c)
        \/ LoopPredictReturns(c)
        \/ LoopReceiveText(c)
        \/ LoopDisconnect(c)

SpecLoop == InitLoop /\ [][NextLoop]_vars

(***************************************************************************)
(* Properties of the handlers (checked under SpecLoop).                    *)
(***************************************************************************)

\* the events the handler of c sent for the frame it counted as its n-th
EventsForFrame(c, n) ==
    {outbox[c][i] : i \in {j \in DOMAIN outbox[c] :
                            /\ outbox[c][j].cause = "frame"
                            /\ outbox[c][j].at_frame = n}}

\* C23: when the backend raises on a ready window the connection gets an event
\* of type "error" for that frame and none of type "recognition", and stays
\* open.
C23_ErrorEvent ==
    (last.op = "process_frame" /\ last.ret = "error") =>
        LET evs == EventsForFrame(last.conn, ws_frame_count[last.conn]) IN
        /\ \E e \in evs : e.type = "error"
        /\ \A e \in evs : e.type # "recognition"
        /\ pc[last.conn] = "open"

\* C25: a receive loop ends only by a "stop" message or a disconnect.
C25_LoopEndsOnlyOnStop ==
    \A c \in Conns :
        (pc[c] = "done" /\ ended_by[c] # "setup") =>
            ended_by[c] \in {"stop", "disconnect"}

\* the recognition events sent on c, in the order sent
RecognitionEvents(c) ==
    SelectSeq(outbox[c], LAMBDA e : e.type = "recognition")

\* C26: the recognition events of a connection carry strictly increasing
\* frame_count values, and each was sent while the frame it reports was the
\* last one the handler had taken.
C26_EventsInOrder ==
    \A c \in Conns :
        LET evs == RecognitionEvents(c) IN
        /\ \A i, j \in DOMAIN evs : i < j => evs[i].frame_count < evs[j].frame_count
        /\ \A i \in DOMAIN evs : evs[i].frame_count = evs[i].at_frame
        /\ \A i \in DOMAIN evs : evs[i].frame_count <= ws_frame_count[c]

\* a connection got two recognition events, not for consecutive frames, while
\* another connection was started in between
C26_Witness ==
    \E c \in Conns :
        /\ Len(RecognitionEvents(c)) = 2
        /\ RecognitionEvents(c)[2].frame_count > RecognitionEvents(c)[1].frame_count + 1
        /\ \E d \in Conns \ {c} : pc[d] # "none"

\* C27: while the classify call of one connection has not returned, a frame
\* arriving on another open connection can be processed.
C27_NoCrossSessionBlocking ==
    \A c, d \in Conns :
        (/\ c # d
         /\ pc[c] = "inferring"
         /\ pc[d] = "open"
         /\ LoopFrames < MaxLoopFrames
         /\ LoopEvents < MaxLoopEvents
         /\ Len(inference_times) < MaxSamples) => ENABLED LoopReceiveFrame(d)


\* what LoopFinally records: the handler left through its finally block
FinallyCauses == {"stop", "disconnect", "exception"}

\* C33: after a connection handler has finished, for whatever reason after
\* its id was registered, the id is no longer in active_connections and
\* stop_session has been called for it.
C33_SessionDestroyed ==
    \A c \in Conns :
        pc[c] = "done" =>
            /\ c \notin active_connections
            /\ ended_by[c] \in FinallyCauses

\* C32: the first event of every connection is one "connection" event with
\* the session_id; no recognition or stats event comes before it, and every
\* later recognition and stats event of the connection has that session_id.
C32_ConnectionEventFirst ==
    \A c \in Conns :
        /\ pc[c] \in {"open", "inferring"} => outbox[c] # <<>>
        /\ outbox[c] # <<>> =>
            /\ outbox[c][1].type = "connection"
            /\ outbox[c][1].session_id = c
            /\ \A i \in DOMAIN outbox[c] :
                /\ outbox[c][i].type = "connection" => i = 1
                /\ outbox[c][i].type \in {"recognition", "stats"} =>
                       outbox[c][i].session_id = outbox[c][1].session_id

\* a connection got its connection event, then a recognition and a stats
\* event, all after the service was handed to a later session
C32_Witness ==
    \E c \in Conns :
        /\ Len(outbox[c]) = 3
        /\ {outbox[c][i].type : i \in 2..3} = {"recognition", "stats"}
        /\ session_id # c
        /\ \A i \in 2..3 : outbox[c][i].at_frame >= 1

\* C36: the frame_count of a recognition event is the buffer's frame_count
\* at the moment the window became ready, so it is at least window_size and
\* exceeds it by a multiple of stride.
C36_EventCountIsBufferCount ==
    (last.op = "process_frame" /\ last.ret # "None") =>
        LET e == outbox[last.conn][Len(outbox[last.conn])] IN
        /\ e.type = "recognition"
        /\ e.frame_count = frame_count
        /\ e.frame_count >= window_size
        /\ (e.frame_count - window_size) % stride = 0

(***************************************************************************)
(* SpecExtract: MediaPipeHandExtractor.extract_landmarks_sequence, called  *)
(* with any list of frames and any sequence_length within the bounds.  A   *)
(* frame is given by what extract_landmarks returns for it: NoLandmarks    *)
(* (None) or its landmarks.                                                *)
(***************************************************************************)

\* the lists of at most n elements of S
RECURSIVE SeqsUpTo(_, _)
SeqsUpTo(S, n) ==
    IF n = 0 THEN {<<>>}
    ELSE LET shorter == SeqsUpTo(S, n - 1)
         IN shorter \cup {Append(q, x) : q \in {r \in shorter : Len(r) = n - 1}, x \in S}

FrameLists == SeqsUpTo(Landmarks \cup {NoLandmarks}, MaxInputFrames)
SequenceLengths == 0..MaxSequenceLength

\* np.array(list, dtype=np.float32) of (21, 3) arrays: k of them give shape
\* (k, 21, 3), an empty list gives shape (0,)
np_array(list) == [ndim |-> IF list = <<>> THEN 1 ELSE 3, data |-> list]

\* np.zeros((n, 21, 3))
np_zeros(n) == [ndim |-> 3, data |-> [i \in 1..n |-> ZeroFrame]]

\* np.concatenate([a, b], axis=0): arrays of different numbers of dimensions
\* raise ValueError
np_concatenate(a, b) ==
    IF a.ndim # b.ndim THEN [raises |-> TRUE, data |-> <<>>]
    ELSE [raises |-> FALSE, data |-> a.data \o b.data]

\* extract_landmarks_sequence(frames, sequence_length): a zero frame for each
\* frame without landmarks, then padding at the end or truncation
extract_landmarks_sequence(frames, sequence_length) ==
    LET landmarks_sequence ==
            np_array([i \in 1..Len(frames) |->
                        IF frames[i] = NoLandmarks THEN ZeroFrame ELSE frames[i]])
        current_length == Len(landmarks_sequence.data)
    IN IF current_length < sequence_length
       THEN np_concatenate(landmarks_sequence, np_zeros(sequence_length - current_length))
       ELSE IF current_length > sequence_length
       THEN [raises |-> FALSE, data |-> SubSeq(landmarks_sequence.data, 1, sequence_length)]
       ELSE [raises |-> FALSE, data |-> landmarks_sequence.data]

ExtractLandmarksSequence ==
    /\ \E frames \in FrameLists, sequence_length \in SequenceLengths :
        LET r == extract_landmarks_sequence(frames, sequence_length) IN
        call' = [op |-> "extract_landmarks_sequence", frames |-> frames,
                 sequence_length |-> sequence_length,
                 raises |-> r.raises, ret |-> r.data]
    /\ UNCHANGED <<bufferVars, windows, serviceVars, pc, added, calls, clean, last,
                   engineVars, np_rng, min_confidence, num_classes, remembered,
                   loopVars>>

InitExtract ==
    /\ InitIdleService
    /\ inference_engine = "None"
    /\ mock_engine = "None"
    /\ use_mock = FALSE
    /\ onnx_available = TRUE
    /\ min_confidence = 0
    /\ num_classes = 1

NextExtract == ExtractLandmarksSequence

SpecExtract == InitExtract /\ [][NextExtract]_vars

(***************************************************************************)
(* Properties of extract_landmarks_sequence (checked under SpecExtract).   *)
(***************************************************************************)

\* the entry a frame contributes
Entry(frame) == IF frame = NoLandmarks THEN ZeroFrame ELSE frame

\* C34: for every list of frames the result has exactly sequence_length
\* entries: position i holds the entry of frame i while there is one (a zero
\* frame for a frame without a hand) and a zero frame after the input's end.
C34_ExactSequenceLength ==
    call.op = "extract_landmarks_sequence" =>
        /\ ~call.raises
        /\ Len(call.ret) = call.sequence_length
        /\ \A i \in 1..call.sequence_length :
            call.ret[i] = IF i <= Len(call.frames) THEN Entry(call.frames[i])
                          ELSE ZeroFrame

(***************************************************************************)
(* SpecHeartbeat: the handlers from the state in which connection "a" has  *)
(* been opened and has sent HeartbeatStart binary messages, none of which  *)
(* decoded: nothing was sent for them and the buffer is still empty.  The  *)
(* next frames of "a" are the ones around the hundredth.                   *)
(***************************************************************************)

HeartbeatStart == HeartbeatEvery - 2

InitHeartbeat ==
    /\ window_size \in LoopWindowSizes
    /\ stride \in LoopStrides
    /\ buffer = <<>>
    /\ frame_count = 0
    /\ windows = <<>>
    /\ service_created = TRUE
    /\ session_id = "a"
    /\ is_active = TRUE
    /\ inference_times = <<>>
    /\ pc = [c \in Conns |-> IF c = "a" THEN "open" ELSE "none"]
    /\ added = <<>>
    /\ calls = 0
    /\ clean = TRUE
    /\ last = [op |-> "process_frame", conn |-> "a", arg |-> "undecodable",
               ready |-> FALSE, ret |-> "None"]
    /\ call = NoCall
    /\ remembered = NoCall
    /\ ws_frame_count = [c \in Conns |-> IF c = "a" THEN HeartbeatStart ELSE 0]
    /\ outbox = [c \in Conns |->
                    IF c = "a"
                    THEN <<[type |-> "connection", session_id |-> "a",
                            frame_count |-> 0, error |-> FALSE,
                            at_frame |-> 0, cause |-> "open"]>>
                    ELSE <<>>]
    /\ ended_by = [c \in Conns |-> "-"]
    /\ active_connections = {"a"}
    /\ np_rng = [seed |-> 0, pos |-> 0]
    /\ inference_engine = "real"
    /\ mock_engine = "None"
    /\ use_mock = FALSE
    /\ onnx_available = TRUE
    /\ min_confidence = 0
    /\ num_classes = 1

NextHeartbeat ==
    \E c \in Conns :
        \/ LoopConnect(c)
        \/ LoopReceiveFrameFrom(c, HeartbeatStart)
        \/ LoopPredictReturns(c)
        \/ LoopReceiveText(c)
        \/ LoopDisconnect(c)

SpecHeartbeat == InitHeartbeat /\ [][NextHeartbeat]_vars

(***************************************************************************)
(* Properties of the heartbeat (checked under SpecHeartbeat).              *)
(***************************************************************************)

\* the events sent on c by the step
NewEvents(c) == SubSeq(outbox'[c], Len(outbox[c]) + 1, Len(outbox'[c]))

\* the positions of the stats events among them
NewStats(c) == {i \in DOMAIN NewEvents(c) : NewEvents(c)[i].type = "stats"}

\* C37: a get_stats message is answered by one stats event; the handling of a
\* binary message whose number on the connection is a multiple of 100, decoded
\* or not, ends with one stats event carrying that number, after the frame's
\* recognition event if there is one; no other step sends a stats event.
C37_StatsCadence ==
    [][\A c \in Conns :
        /\ Len(outbox'[c]) >= Len(outbox[c])
        /\ SubSeq(outbox'[c], 1, Len(outbox[c])) = outbox[c]
        /\ IF last'.conn = c /\ last'.op = "text" /\ last'.arg = "get_stats"
           THEN /\ Len(NewEvents(c)) = 1
                /\ NewStats(c) = {1}
           ELSE IF /\ last'.conn = c /\ last'.op = "process_frame"
                   /\ ws_frame_count'[c] % HeartbeatEvery = 0
           THEN /\ NewStats(c) = {Len(NewEvents(c))}
                /\ NewEvents(c)[Len(NewEvents(c))].frame_count = ws_frame_count'[c]
                /\ Len(NewEvents(c)) = IF last'.ret = "None" THEN 1 ELSE 2
           ELSE NewStats(c) = {}]_vars

\* the hundredth frame of a connection completed a window: its recognition
\* event is followed by the stats event
C37_Witness ==
    \E c \in Conns : \E i \in DOMAIN outbox[c] :
        /\ i > 1
        /\ outbox[c][i].type = "stats"
        /\ outbox[c][i].cause = "frame"
        /\ outbox[c][i].frame_count = HeartbeatEvery
        /\ outbox[c][i - 1].type = "recognition"
        /\ outbox[c][i - 1].frame_count = HeartbeatEvery

====
